---- MODULE Spec2Model ----
(***************************************************************************)
(* Model of the rehashed-sources batch job (src/main.py, src/config.py).   *)
(*                                                                         *)
(* The job runs once, sequentially:                                        *)
(*   df_acc = get_data_from_db(query_acc)      -- query scope 1            *)
(*   df_aff = get_data_from_db(query_aff)      -- query scope 2            *)
(*   pairs  = generate_aff_source_pairs(df_aff, df_acc)                    *)
(*   current_hashes = get_current_hashes(df_acc)                           *)
(*   rehashed_data  = rehashed_sources(current_hashes)                     *)
(*        which calls traffic_source_hash_pairs(pairs) -- query scope 3    *)
(*   rehashed_data.to_csv(...)                                             *)
(*                                                                         *)
(* Python values are records [t, n, s]: t is the Python type, n the        *)
(* number an int or a string of decimal digits stands for, s the text of a *)
(* non-numeric string.                                                     *)
(***************************************************************************)
EXTENDS Integers, Sequences, FiniteSets, TLC

VARIABLES
    pc,              \* stage of the __main__ script
    step,            \* position inside the stage's `with` scope
    pending,         \* exception raised inside a `with` block, not yet propagated
    err,             \* uncaught exception that ended the run at stage pc ("none"
                     \* while the run goes on or has finished)
    tunnel,          \* scope -> state of the SSHTunnelForwarder of that scope
    conn,            \* scope -> state of the psycopg2 connection of that scope
    left,            \* scopes whose `with` block has been left
    acc_rows,        \* rows of the offer query as the database returned them
    df_acc,          \* the offers DataFrame (mutated in place by dropna)
    df_aff,          \* the clicks DataFrame
    pairs,           \* module-level list of candidate tuples
    errors_logged,   \* number of logger.error calls
    current_hashes,  \* set returned by get_current_hashes
    values,          \* literal rows of the VALUES clause
    results,         \* hashtext column returned by the hash query
    hashed_results,  \* DataFrame returned by traffic_source_hash_pairs
    rows,            \* rows kept by rehashed_sources
    csv              \* the output file: [written, rows]

vars == <<pc, step, pending, err, tunnel, conn, left, acc_rows, df_acc, df_aff,
          pairs, errors_logged, current_hashes, values, results, hashed_results,
          rows, csv>>

-----------------------------------------------------------------------------
(* Bounds of the model *)

MaxOffers == 2
MaxClicks == 2

-----------------------------------------------------------------------------
(* Python values and the conversions the code applies to them *)

PyInt(n) == [t |-> "int", n |-> n, s |-> ""]
PyDigits(n) == [t |-> "numstr", n |-> n, s |-> ""]
PyStr(text) == [t |-> "str", n |-> 0, s |-> text]
PyNone == [t |-> "none", n |-> 0, s |-> ""]

\* pd.notnull / the test dropna applies
NotNull(x) == x.t # "none"

\* int(x) raises on None and on a non-numeric string
CanInt(x) == x.t \in {"int", "numstr"}
IntCast(x) == PyInt(x.n)

\* str(x): str(5) = '5', str(None) = 'None', a string is itself
StrCast(x) ==
    CASE x.t = "int" -> PyDigits(x.n)
      [] x.t = "none" -> PyStr("None")
      [] OTHER -> x

\* A whitelist/blacklist column value: an array of tokens, or NULL (None),
\* on which set(...) and set.update(...) raise TypeError.
TokenList(S) == [iter |-> TRUE, toks |-> S]
NotIterable == [iter |-> FALSE, toks |-> {}]

-----------------------------------------------------------------------------
(* The hash expression of the recomputation query, src/main.py:63-71 *)

NilUuid == PyStr("00000000-0000-0000-0000-000000000000")

Coalesce(x, default) == IF x.t = "none" THEN default ELSE x

CastVarchar(x) == IF x.t = "int" THEN PyDigits(x.n) ELSE x

\* COALESCE each column, cast to VARCHAR, joined with '_': the four parts
HashInput(row) ==
    << CastVarchar(Coalesce(row[1], PyInt(0))),
       CastVarchar(Coalesce(row[2], PyStr(""))),
       CastVarchar(Coalesce(row[3], NilUuid)),
       CastVarchar(Coalesce(row[4], PyInt(0))) >>

StrCode(x) ==
    IF x.t = "numstr" THEN 8 + x.n
    ELSE CASE x.s = "" -> 0
           [] x.s = "None" -> 1
           [] x.s = NilUuid.s -> 2
           [] x.s = "A" -> 3
           [] x.s = "fb" -> 4
           [] OTHER -> 5

\* hashtext(): a deterministic fixed-width hash of the joined string (int4 in
\* PostgreSQL; 30 bits here, the widest power of two TLC's integers can
\* take as a modulus)
HashText(parts) ==
    (((StrCode(parts[1]) * 31 + StrCode(parts[2])) * 31 + StrCode(parts[3])) * 31
        + StrCode(parts[4])) % (2^30)

-----------------------------------------------------------------------------
(* Contents of the database *)

\* Tokens the database materialised from the true (NULL-aware) columns
TokenOf(aff, source, account, segment) ==
    PyDigits(HashText(HashInput(<<aff, source, account, segment>>)))

TokenA == TokenOf(PyInt(1), PyStr("fb"), PyStr("A"), PyInt(5))
TokenNullAccount == TokenOf(PyInt(1), PyStr("fb"), PyNone, PyInt(5))
TokenNoneText == TokenOf(PyInt(1), PyStr("fb"), PyStr("None"), PyInt(5))

ListShapes ==
    { <<TokenList({}), TokenList({})>>,
      <<TokenList({TokenA}), TokenList({})>>,
      <<TokenList({}), TokenList({TokenNullAccount, TokenNoneText})>>,
      <<NotIterable, TokenList({})>> }

OfferDomain ==
    { [offer_id |-> PyInt(10), ssp_account_id |-> a, ssp_segment_id |-> g,
       advertiser |-> PyStr("X"), name |-> PyStr("seg"),
       source_token_whitelist |-> l[1], source_token_blacklist |-> l[2]] :
        a \in {PyStr("A"), PyNone},
        g \in {PyInt(5), PyNone, PyStr("n/a")},
        l \in ListShapes }

ClickDomain ==
    { [current_aff_id |-> a, current_source |-> PyStr("fb")] :
        a \in {PyInt(1), PyStr("x1")} }

SeqsUpTo(S, n) == UNION { [1..k -> S] : k \in 0..n }

Range(f) == { f[i] : i \in DOMAIN f }

OfferTables == SeqsUpTo(OfferDomain, MaxOffers)

\* query_aff groups by (current_aff_id, current_source): rows are distinct
ClickTables ==
    { t \in SeqsUpTo(ClickDomain, MaxClicks) : Cardinality(Range(t)) = Len(t) }

-----------------------------------------------------------------------------
(* Query scopes *)

Scopes == {1, 2, 3}

ScopeOf(stage) ==
    CASE stage = "acc" -> 1
      [] stage = "aff" -> 2
      [] stage = "hash" -> 3

Init ==
    /\ pc = "acc"
    /\ step = "enter"
    /\ pending = "none"
    /\ err = "none"
    /\ tunnel = [s \in Scopes |-> "none"]
    /\ conn = [s \in Scopes |-> "none"]
    /\ left = {}
    /\ acc_rows = <<>>
    /\ df_acc = <<>>
    /\ df_aff = <<>>
    /\ pairs = <<>>
    /\ errors_logged = 0
    /\ current_hashes = {}
    /\ values = <<>>
    /\ results = <<>>
    /\ hashed_results = <<>>
    /\ rows = <<>>
    /\ csv = [written |-> FALSE, rows |-> <<>>]

dataVars == <<acc_rows, df_acc, df_aff, pairs, errors_logged, current_hashes,
              values, results, hashed_results, rows, csv>>

\* `with create_ssh_tunnel(ssh_params) as server:` -- the tunnel starts, or
\* the start raises and the block is never entered
TunnelEnter ==
    /\ err = "none"
    /\ pc \in {"acc", "aff", "hash"}
    /\ step = "enter"
    /\ \/ /\ tunnel' = [tunnel EXCEPT ![ScopeOf(pc)] = "open"]
          /\ step' = "connect"
          /\ UNCHANGED <<pc, err>>
       \/ /\ err' = "TunnelError"
          /\ UNCHANGED <<pc, step, tunnel>>
    /\ UNCHANGED <<pending, conn, left, dataVars>>

\* conn = connect_to_database(db_params, db_port)
Connect ==
    /\ err = "none"
    /\ pc \in {"acc", "aff", "hash"}
    /\ step = "connect"
    /\ \/ /\ conn' = [conn EXCEPT ![ScopeOf(pc)] = "open"]
          /\ step' = IF pc = "hash" THEN "values" ELSE "execute"
          /\ UNCHANGED pending
       \/ /\ pending' = "OperationalError"
          /\ step' = "exit"
          /\ UNCHANGED conn
    /\ UNCHANGED <<pc, err, tunnel, left, dataVars>>

\* result = execute_sql_query(conn, query) for the two source queries
ExecuteSourceQuery ==
    /\ err = "none"
    /\ pc \in {"acc", "aff"}
    /\ step = "execute"
    /\ step' = "exit"
    /\ \/ /\ pc = "acc"
          /\ \E t \in OfferTables : acc_rows' = t /\ df_acc' = t
          /\ UNCHANGED <<df_aff, pending>>
       \/ /\ pc = "aff"
          /\ \E t \in ClickTables : df_aff' = t
          /\ UNCHANGED <<acc_rows, df_acc, pending>>
       \/ /\ pending' = "DatabaseError"
          /\ UNCHANGED <<acc_rows, df_acc, df_aff>>
    /\ UNCHANGED <<pc, err, tunnel, conn, left, pairs, errors_logged,
                   current_hashes, values, results, hashed_results, rows, csv>>

NextStage(stage) ==
    CASE stage = "acc" -> "aff"
      [] stage = "aff" -> "generate"
      [] stage = "hash" -> "reconcile"

\* The `with` block is left: SSHTunnelForwarder.__exit__ stops the tunnel,
\* on the normal path and when an exception passes through. Nothing closes
\* the connection. A pending exception then propagates uncaught.
ScopeExit ==
    /\ err = "none"
    /\ pc \in {"acc", "aff", "hash"}
    /\ step = "exit"
    /\ tunnel' = [tunnel EXCEPT ![ScopeOf(pc)] = "released"]
    /\ left' = left \cup {ScopeOf(pc)}
    /\ IF pending # "none"
          THEN /\ err' = pending
               /\ step' = "-"
               /\ UNCHANGED pc
          ELSE /\ pc' = NextStage(pc)
               /\ step' = IF pc = "acc" THEN "enter" ELSE "-"
               /\ UNCHANGED err
    /\ pending' = "none"
    /\ UNCHANGED <<conn, dataVars>>

-----------------------------------------------------------------------------
(* generate_aff_source_pairs, src/main.py:11-39 *)

\* variant: dropna without inplace=True, the caller's frame keeps every row
DropNaCopy(df) == df

\* df2.dropna(subset=['ssp_segment_id'], inplace=True)
DropNa(df) == SelectSeq(df, LAMBDA r : NotNull(r.ssp_segment_id))

\* the statements of the try block that can raise: int(...), set(...)
RowRaises(row_df2) ==
    \/ ~CanInt(row_df2.ssp_segment_id)
    \/ ~row_df2.source_token_whitelist.iter
    \/ ~row_df2.source_token_blacklist.iter

\* variant: the account id is added as it is, without str(...)
CandidateTupleRawAccount(row_df1, row_df2) ==
    << row_df1.current_aff_id, row_df1.current_source,
       row_df2.ssp_account_id, IntCast(IntCast(row_df2.ssp_segment_id)),
       row_df2.offer_id, row_df2.advertiser, row_df2.name >>

\* the tuple added to hash_pairs
CandidateTuple(row_df1, row_df2) ==
    << row_df1.current_aff_id, row_df1.current_source,
       StrCast(row_df2.ssp_account_id), IntCast(IntCast(row_df2.ssp_segment_id)),
       row_df2.offer_id, row_df2.advertiser, row_df2.name >>

\* the inner loop over df2 for one row of df1; acc = [set, logged]
RECURSIVE InnerLoop(_, _, _, _)
InnerLoop(row_df1, df2, j, acc) ==
    IF j > Len(df2) THEN acc
    ELSE LET row_df2 == df2[j] IN
         IF RowRaises(row_df2)
            THEN InnerLoop(row_df1, df2, j + 1,
                           [acc EXCEPT !.logged = acc.logged + 1])
            ELSE LET hash_list == row_df2.source_token_whitelist.toks
                                    \cup row_df2.source_token_blacklist.toks
                 IN IF hash_list # {}
                       THEN InnerLoop(row_df1, df2, j + 1,
                                [acc EXCEPT !.set =
                                    acc.set \cup {CandidateTuple(row_df1, row_df2)}])
                       ELSE InnerLoop(row_df1, df2, j + 1, acc)

\* the outer loop over df1
RECURSIVE OuterLoop(_, _, _, _)
OuterLoop(df1, df2, i, acc) ==
    IF i > Len(df1) THEN acc
    ELSE OuterLoop(df1, df2, i + 1, InnerLoop(df1[i], df2, 1, acc))

\* list(hash_pairs): the elements of the set in some order
ListsOf(S) ==
    { l \in [1..Cardinality(S) -> S] : Range(l) = S }

\* pairs = generate_aff_source_pairs(df_aff, df_acc); df2 is df_acc itself,
\* so the caller's frame loses its null-segment rows
GenerateAffSourcePairs ==
    /\ err = "none"
    /\ pc = "generate"
    /\ LET df2 == DropNa(df_acc)
           out == OuterLoop(df_aff, df2, 1, [set |-> {}, logged |-> 0])
       IN /\ df_acc' = df2
          /\ pairs' \in ListsOf(out.set)
          /\ errors_logged' = errors_logged + out.logged
    /\ pc' = "observed"
    /\ UNCHANGED <<step, pending, err, tunnel, conn, left, acc_rows, df_aff,
                   current_hashes, values, results, hashed_results, rows, csv>>

-----------------------------------------------------------------------------
(* get_current_hashes, src/main.py:85-101 *)

\* variant: the account test is left out
AccountPresentAlways(row) == TRUE

\* if pd.notnull(account_id)
AccountPresent(row) == NotNull(row.ssp_account_id)

\* the loop over df; acc = [set, raised]
RECURSIVE HashesLoop(_, _, _)
HashesLoop(df, i, acc) ==
    IF i > Len(df) \/ acc.raised THEN acc
    ELSE LET row == df[i] IN
         IF AccountPresent(row)
            THEN IF ~row.source_token_whitelist.iter
                    THEN [acc EXCEPT !.raised = TRUE]
                 ELSE IF ~row.source_token_blacklist.iter
                    THEN [set |-> acc.set \cup row.source_token_whitelist.toks,
                          raised |-> TRUE]
                 ELSE HashesLoop(df, i + 1,
                        [acc EXCEPT !.set = acc.set
                            \cup row.source_token_whitelist.toks
                            \cup row.source_token_blacklist.toks])
            ELSE HashesLoop(df, i + 1, acc)

\* current_hashes = get_current_hashes(df_acc); set.update(None) raises
\* TypeError, which nothing catches
GetCurrentHashes ==
    /\ err = "none"
    /\ pc = "observed"
    /\ LET out == HashesLoop(df_acc, 1, [set |-> {}, raised |-> FALSE])
       IN IF out.raised
             THEN /\ err' = "TypeError"
                  /\ UNCHANGED <<pc, current_hashes, step>>
             ELSE /\ current_hashes' = out.set
                  /\ pc' = "hash"
                  /\ step' = "enter"
                  /\ UNCHANGED err
    /\ UNCHANGED <<pending, tunnel, conn, left, acc_rows, df_acc, df_aff, pairs,
                   errors_logged, values, results, hashed_results, rows, csv>>

-----------------------------------------------------------------------------
(* traffic_source_hash_pairs, src/main.py:42-82 *)

\* the try block of the loop raises when int(pair[0]) or int(pair[3]) does
LiteralRaises(pair) == ~CanInt(pair[1]) \/ ~CanInt(pair[4])

\* ({}, {}, {}, {}) formatted with the four literals
LiteralRow(pair) ==
    << IntCast(pair[1]), StrCast(pair[2]), StrCast(pair[3]), IntCast(pair[4]) >>

\* the loop over data: a pair that raises is passed over
RECURSIVE ValuesLoop(_, _, _)
ValuesLoop(data, i, acc) ==
    IF i > Len(data) THEN acc
    ELSE IF LiteralRaises(data[i])
            THEN ValuesLoop(data, i + 1, acc)
            ELSE ValuesLoop(data, i + 1, Append(acc, LiteralRow(data[i])))

\* values = [...] built from data; rehashed_sources passes the global pairs
BuildValues ==
    /\ err = "none"
    /\ pc = "hash"
    /\ step = "values"
    /\ values' = ValuesLoop(pairs, 1, <<>>)
    /\ step' = "execute"
    /\ UNCHANGED <<pc, pending, err, tunnel, conn, left, acc_rows, df_acc, df_aff,
                   pairs, errors_logged, current_hashes, results, hashed_results,
                   rows, csv>>

\* the hashtext column the server computes for the VALUES rows, in row order
HashColumn(vals) == [i \in 1..Len(vals) |-> HashText(HashInput(vals[i]))]

\* results = execute_sql_query(conn, query): "FROM (VALUES ) AS vals" with no
\* row is a syntax error; otherwise the query answers or the server fails
ExecuteHashQuery ==
    /\ err = "none"
    /\ pc = "hash"
    /\ step = "execute"
    /\ IF values = <<>>
          THEN /\ pending' = "SyntaxError"
               /\ step' = "exit"
               /\ UNCHANGED results
          ELSE \/ /\ results' = HashColumn(values)
                  /\ step' = "frame"
                  /\ UNCHANGED pending
               \/ /\ pending' = "DatabaseError"
                  /\ step' = "exit"
                  /\ UNCHANGED results
    /\ UNCHANGED <<pc, err, tunnel, conn, left, acc_rows, df_acc, df_aff, pairs,
                   errors_logged, current_hashes, values, hashed_results, rows, csv>>

\* one row of df_results: the columns of pairs[i] and the i-th hash
FrameRow(pair, hash) ==
    [aff_id |-> pair[1], source |-> pair[2], account_id |-> pair[3],
     segment_id |-> pair[4], offer_id |-> pair[5], advertiser |-> pair[6],
     segment_name |-> pair[7], hash_value |-> PyInt(hash)]

\* df_results = pd.DataFrame({... for pair in pairs ..., 'hash_value': results}):
\* the seven columns come from the global pairs, the eighth from results;
\* columns of different lengths raise ValueError
BuildFrame ==
    /\ err = "none"
    /\ pc = "hash"
    /\ step = "frame"
    /\ IF Len(pairs) # Len(results)
          THEN /\ pending' = "ValueError"
               /\ UNCHANGED hashed_results
          ELSE /\ hashed_results' =
                    [i \in 1..Len(pairs) |-> FrameRow(pairs[i], results[i])]
               /\ UNCHANGED pending
    /\ step' = "exit"
    /\ UNCHANGED <<pc, err, tunnel, conn, left, acc_rows, df_acc, df_aff, pairs,
                   errors_logged, current_hashes, values, results, rows, csv>>

-----------------------------------------------------------------------------
(* rehashed_sources, src/main.py:104-126, and the write of the report *)

\* variant: the integer hash is looked up without str(...)
HashObservedNoStr(row, hashed_list) == row.hash_value \in hashed_list

\* if str(row['hash_value']) in hashed_list
HashObserved(row, hashed_list) == StrCast(row.hash_value) \in hashed_list

\* the loop over hashed_results.iterrows()
RECURSIVE FilterLoop(_, _, _, _)
FilterLoop(frame, hashed_list, i, acc) ==
    IF i > Len(frame) THEN acc
    ELSE IF HashObserved(frame[i], hashed_list)
            THEN FilterLoop(frame, hashed_list, i + 1,
                    Append(acc,
                        [hash_value |-> frame[i].hash_value,
                         offer_id |-> frame[i].offer_id,
                         aff_id |-> frame[i].aff_id,
                         source |-> frame[i].source,
                         account_id |-> frame[i].account_id,
                         segment_id |-> frame[i].segment_id,
                         advertiser |-> frame[i].advertiser,
                         segment_name |-> frame[i].segment_name]))
            ELSE FilterLoop(frame, hashed_list, i + 1, acc)

\* the part of rehashed_sources after traffic_source_hash_pairs has returned
RehashedSources ==
    /\ err = "none"
    /\ pc = "reconcile"
    /\ rows' = FilterLoop(hashed_results, current_hashes, 1, <<>>)
    /\ pc' = "write"
    /\ UNCHANGED <<step, pending, err, tunnel, conn, left, acc_rows, df_acc, df_aff,
                   pairs, errors_logged, current_hashes, values, results,
                   hashed_results, csv>>

\* rehashed_data.to_csv(...)
WriteCsv ==
    /\ err = "none"
    /\ pc = "write"
    /\ csv' = [written |-> TRUE, rows |-> rows]
    /\ pc' = "done"
    /\ UNCHANGED <<step, pending, err, tunnel, conn, left, acc_rows, df_acc, df_aff,
                   pairs, errors_logged, current_hashes, values, results,
                   hashed_results, rows>>

Next ==
    \/ TunnelEnter
    \/ Connect
    \/ ExecuteSourceQuery
    \/ ScopeExit
    \/ GenerateAffSourcePairs
    \/ GetCurrentHashes
    \/ BuildValues
    \/ ExecuteHashQuery
    \/ BuildFrame
    \/ RehashedSources
    \/ WriteCsv

Spec == Init /\ [][Next]_vars

-----------------------------------------------------------------------------
(* Vocabulary of the properties *)

\* failures of the environment: tunnel, connection, server
EnvironmentErrors == {"TunnelError", "OperationalError", "DatabaseError"}

Generated == pc \in {"observed", "hash", "reconcile", "write", "done"}
ObservedComputed == pc \in {"hash", "reconcile", "write", "done"}
Reconciled == pc \in {"write", "done"}
Terminated == pc = "done" \/ err # "none"

\* the hash query answered and the statement building df_results has run
FrameStatementRan == pc = "hash" /\ step = "exit" /\ results # <<>>

Offers == Range(acc_rows)
Clicks == Range(df_aff)

ListTokens(o) == o.source_token_whitelist.toks \cup o.source_token_blacklist.toks

\* an offer row with a field that cannot be coerced
Malformed(o) ==
    \/ o.ssp_segment_id.t \notin {"none", "int", "numstr"}
    \/ ~o.source_token_whitelist.iter
    \/ ~o.source_token_blacklist.iter

\* whitelist U blacklist is the empty set
UnionEmpty(o) ==
    /\ o.source_token_whitelist.iter
    /\ o.source_token_blacklist.iter
    /\ ListTokens(o) = {}

\* (click.affiliate_id, click.source, str(offer.account_id),
\*  int(offer.segment_id), offer.offer_id, offer.advertiser, offer.segment_name)
ClaimedTuple(c, o) ==
    << c.current_aff_id, c.current_source,
       IF o.ssp_account_id.t = "none" THEN PyStr("None") ELSE o.ssp_account_id,
       PyInt(o.ssp_segment_id.n), o.offer_id, o.advertiser, o.name >>

\* the candidate tuple carried by a row of the hashed frame
TupleOfRow(r) ==
    << r.aff_id, r.source, r.account_id, r.segment_id, r.offer_id, r.advertiser,
       r.segment_name >>

CoerciblePairs == { i \in DOMAIN pairs : CanInt(pairs[i][1]) /\ CanInt(pairs[i][4]) }

\* the i-th smallest element of a set of indices
Nth(S, i) == CHOOSE j \in S : Cardinality({ k \in S : k < j }) = i - 1

-----------------------------------------------------------------------------
(* C1 *)

\* C1 (as claimed): once the hash query has answered, traffic_source_hash_pairs
\* yields exactly one row per coercible candidate, in input order, each with
\* the hash of its own (affiliate_id, source, account_id, segment_id).
C1_OneRowPerCoercibleCandidate ==
    FrameStatementRan =>
        /\ pending = "none"
        /\ Len(hashed_results) = Cardinality(CoerciblePairs)
        /\ \A i \in DOMAIN hashed_results :
              LET p == pairs[Nth(CoerciblePairs, i)] IN
              /\ TupleOfRow(hashed_results[i]) = p
              /\ hashed_results[i].hash_value =
                    PyInt(HashText(<<PyDigits(p[1].n), p[2], p[3], PyDigits(p[4].n)>>))

-----------------------------------------------------------------------------
(* C2 *)

\* C2 (as claimed): a candidate whose affiliate_id or segment_id cannot be
\* cast never aborts the batch: a run that got into the hash stage with such
\* a candidate next to candidates that can be cast ends early only for a
\* failure of the environment.
C2_CoercionFailureNeverAborts ==
    (/\ pc = "hash"
     /\ err # "none"
     /\ CoerciblePairs # DOMAIN pairs
     /\ CoerciblePairs # {}) =>
        err \in EnvironmentErrors

-----------------------------------------------------------------------------
(* C3 *)

\* C3 (as claimed): the observed set holds every token of every whitelist and
\* blacklist of every offer the offer query returned.
C3_ObservedFromOriginalOffers ==
    ObservedComputed =>
        \A o \in Offers : ListTokens(o) \subseteq current_hashes

\* C3 (amended): the observed set is exactly the tokens of the whitelists and
\* blacklists of the returned offers that have a non-null segment_id and a
\* non-null account_id, whether or not a candidate came from the offer.
C3_ObservedFromRemainingOffers ==
    ObservedComputed =>
        current_hashes =
            UNION { ListTokens(o) :
                      o \in { x \in Offers : x.ssp_segment_id.t # "none"
                                             /\ x.ssp_account_id.t # "none" } }

\* an offer that yields no candidate (non-numeric segment_id) still has its
\* tokens observed, while a null-segment offer's tokens are missing
C3_Witness ==
    /\ ObservedComputed
    /\ \E o \in Offers :
          /\ o.ssp_segment_id.t = "str"
          /\ ListTokens(o) # {}
          /\ ListTokens(o) \subseteq current_hashes
    /\ \E o \in Offers :
          /\ o.ssp_segment_id.t = "none"
          /\ ListTokens(o) # {}
          /\ ~(ListTokens(o) \subseteq current_hashes)

-----------------------------------------------------------------------------
(* C4 *)

\* C4 (as claimed): a run with no candidates or with an empty observed set
\* ends, unless the environment fails, without an exception and with an empty
\* output file written.
C4_EmptyResultsAreNotAnError ==
    (/\ ObservedComputed
     /\ Terminated
     /\ pairs = <<>> \/ current_hashes = {}
     /\ err \notin EnvironmentErrors) =>
        /\ err = "none"
        /\ csv.written
        /\ csv.rows = <<>>

-----------------------------------------------------------------------------
(* C5 *)

\* C5 (as claimed): the candidates are exactly the tuples of the (click,
\* offer) pairs whose offer has a non-null segment_id and a non-empty
\* whitelist U blacklist.
C5_OmittedIffEmptyOrNull ==
    Generated =>
        /\ \A o \in Offers :
              (o.ssp_segment_id.t # "none" /\ ~UnionEmpty(o)) =>
                  /\ CanInt(o.ssp_segment_id)
                  /\ \A c \in Clicks : ClaimedTuple(c, o) \in Range(pairs)
        /\ \A p \in Range(pairs) :
              \E c \in Clicks, o \in Offers :
                  /\ o.ssp_segment_id.t # "none"
                  /\ ~UnionEmpty(o)
                  /\ p = ClaimedTuple(c, o)

\* C5 (amended): the candidates are exactly the tuples of the (click, offer)
\* pairs whose offer has a non-null segment_id, no uncoercible field and a
\* non-empty whitelist U blacklist, each tuple once.
C5_OmittedIffEmptyNullOrMalformed ==
    Generated =>
        /\ Range(pairs) =
              { ClaimedTuple(c, o) :
                  c \in Clicks,
                  o \in { x \in Offers : /\ x.ssp_segment_id.t # "none"
                                         /\ ~Malformed(x)
                                         /\ ~UnionEmpty(x) } }
        /\ \A i, j \in DOMAIN pairs : pairs[i] = pairs[j] => i = j

\* candidates were generated from an offer with a null account_id in a run
\* whose offers also include a malformed row
C5_Witness ==
    /\ Generated
    /\ pairs # <<>>
    /\ \E o \in Offers : Malformed(o) /\ o.ssp_segment_id.t # "none"
    /\ \E o \in Offers : o.ssp_account_id.t = "none" /\ ~Malformed(o)
                          /\ ~UnionEmpty(o) /\ o.ssp_segment_id.t # "none"

-----------------------------------------------------------------------------
(* C6 *)

KeptIndices ==
    { j \in DOMAIN hashed_results :
        PyDigits(hashed_results[j].hash_value.n) \in current_hashes }

-----------------------------------------------------------------------------
(* C7 *)

\* C7 (as claimed): with a malformed offer row among the returned offers the
\* run is not aborted by observed-hash collection.
C7_MalformedOfferNeverAborts ==
    (pc = "observed" /\ \E o \in Offers : Malformed(o)) => err = "none"

-----------------------------------------------------------------------------
(* C8 *)

\* C8 (as claimed): after a query scope has been left, neither the tunnel nor
\* the database connection opened in it is still open.
C8_ScopeReleasesTunnelAndConnection ==
    \A sc \in left : tunnel[sc] # "open" /\ conn[sc] # "open"

-----------------------------------------------------------------------------
(* C9 *)

\* C9: an offer with a null segment_id takes no part: every candidate is the
\* tuple of an offer with a non-null segment_id, and every observed token is
\* in a list of an offer with a non-null segment_id.
C9_NullSegmentExcluded ==
    /\ Generated =>
          \A p \in Range(pairs) :
              \E c \in Clicks, o \in Offers :
                  o.ssp_segment_id.t # "none" /\ p = ClaimedTuple(c, o)
    /\ ObservedComputed =>
          current_hashes \subseteq
              UNION { ListTokens(o) :
                        o \in { x \in Offers : x.ssp_segment_id.t # "none" } }

\* the observed set was computed in a run whose offers include one with a
\* null segment_id, an account and tokens
C9_Witness ==
    /\ ObservedComputed
    /\ \E o \in Offers :
          /\ o.ssp_segment_id.t = "none"
          /\ o.ssp_account_id.t # "none"
          /\ ListTokens(o) # {}

-----------------------------------------------------------------------------
(* C10 *)

\* the joined string with the NULL defaults applied to the columns
DefaultedInput(aff, source, account, segment) ==
    << IF aff.t = "none" THEN PyDigits(0) ELSE PyDigits(aff.n),
       IF source.t = "none" THEN PyStr("") ELSE source,
       IF account.t = "none" THEN NilUuid ELSE account,
       IF segment.t = "none" THEN PyDigits(0) ELSE PyDigits(segment.n) >>

\* C10 (as claimed): every row of the hashed frame carries the hash of its
\* click's and offer's affiliate_id, source, account_id, segment_id with the
\* NULL defaults applied, the nil UUID standing for a null account_id.
C10_HashUsesNullDefaults ==
    \A i \in DOMAIN hashed_results :
        \A c \in Clicks, o \in Offers :
            (/\ o.ssp_segment_id.t # "none"
             /\ ~Malformed(o)
             /\ ~UnionEmpty(o)
             /\ ClaimedTuple(c, o) = TupleOfRow(hashed_results[i])) =>
                hashed_results[i].hash_value =
                    PyInt(HashText(DefaultedInput(c.current_aff_id, c.current_source,
                                                  o.ssp_account_id, o.ssp_segment_id)))

====
